---- MODULE Spec2Model ----
(***************************************************************************)
(* Proxi: the policy engine (guardrails/policy_engine.py), the tool        *)
(* execution gateway (mcp_server/server.py) and the mock cloud backend     *)
(* (mcp_server/tools.py).                                                  *)
(*                                                                         *)
(* Five specifications share the variables:                                *)
(*   SpecEngine   one caller of a PolicyEngine: set_mode and validate run  *)
(*                to completion one after the other, for every policy      *)
(*                document over a three-tool universe;                     *)
(*   SpecValidate the same caller passing args and context to validate;    *)
(*   SpecLoad     the construction of a PolicyEngine from a policy file,   *)
(*                followed by calls of the instance;                       *)
(*   Spec         the gateway: requests are handled by concurrent workers  *)
(*                and every read of self.current_mode is a step of its     *)
(*                own, so that set_mode can fall between any two of them;  *)
(*   SpecGateway  the gateway with one caller, all its endpoints, and tool *)
(*                requests whose arguments do not fit the tool.            *)
(* Timestamps (datetime.now) and console output are left out: no decision  *)
(* of the code reads them.                                                 *)
(***************************************************************************)
EXTENDS Integers, Sequences, FiniteSets, TLC

VARIABLES
    policy,         \* PolicyEngine.policy, the loaded document
    current_mode,   \* PolicyEngine.current_mode
    services,       \* CloudInfrastructure.services
    fleet_size,     \* CloudInfrastructure.fleet_size
    execution_log,  \* CloudInfrastructure.execution_log
    workers,        \* the gateway requests in flight, one per worker
    ret,            \* SpecEngine: what the last PolicyEngine call returned or raised
    last_set        \* history: the argument of the last set_mode that returned normally

vars == <<policy, current_mode, services, fleet_size, execution_log, workers, ret, last_set>>

engine == <<policy, current_mode>>
backend == <<services, fleet_size, execution_log>>

-----------------------------------------------------------------------------
(* Bounds *)

\* dispatches are cut off once the audit log holds this many records
MaxLog == 2

\* the concurrent gateway workers
Workers == {"w1", "w2"}

-----------------------------------------------------------------------------
(* Policy documents *)

ModeNames == {"NORMAL", "EMERGENCY"}

\* mode names a caller may pass to set_mode; "MAINTENANCE" is never configured
ModeInputs == ModeNames \cup {"MAINTENANCE"}

\* the tool names a policy of the engine family may list
PolicyTools == {"get_service_status", "restart_service", "delete_database"}

\* the tool names a caller may ask for; "unregistered_tool" is in no policy
\* of the engine family and has no entry in tool_map
ToolInputs == PolicyTools \cup {"unregistered_tool"}

ModeRules(m, allowed, blocked) ==
    [description |-> <<"description of", m>>,
     rationale |-> <<"rationale of", m>>,
     allowed_tools |-> allowed,
     blocked_tools |-> blocked]

PolicyDocument(always_blocked, modes) ==
    [global_rules |-> [always_blocked |-> always_blocked], modes |-> modes]

\* every document over PolicyTools with one or both of the mode names
PolicyFamily ==
    { PolicyDocument(ab, [m \in D |-> ModeRules(m, al[m], bl[m])]) :
        ab \in SUBSET PolicyTools,
        D \in (SUBSET ModeNames) \ {{}},
        al \in [ModeNames -> SUBSET PolicyTools],
        bl \in [ModeNames -> SUBSET PolicyTools] }

-----------------------------------------------------------------------------
(* guardrails/policy_engine.py *)

\* an exception object; type "None" stands for a normal return
Exc(type, message, tool_name, mode, reason) ==
    [type |-> type, message |-> message, tool_name |-> tool_name,
     mode |-> mode, reason |-> reason]

NoExc == Exc("None", <<>>, "", "", <<>>)

PolicyViolationError(message, tool_name, mode, reason) ==
    Exc("PolicyViolationError", message, tool_name, mode, reason)

\* PolicyEngine.__init__: the mode after construction
InitialMode == "NORMAL"

\* mutant: the assignment of line 67 moved above the check of line 64
set_mode_assign_first(pol, cur, mode) ==
    IF mode \notin DOMAIN pol.modes
    THEN [raised |-> Exc("ValueError", <<"Invalid mode:", mode>>, "", "", <<>>),
          current_mode |-> mode]
    ELSE [raised |-> NoExc, current_mode |-> mode]

\* mutant: the assignment of line 67 lost
set_mode_no_assign(pol, cur, mode) ==
    IF mode \notin DOMAIN pol.modes
    THEN [raised |-> Exc("ValueError", <<"Invalid mode:", mode>>, "", "", <<>>),
          current_mode |-> cur]
    ELSE [raised |-> NoExc, current_mode |-> cur]

\* mutant: an unknown mode name falls back to the mode of construction
\* instead of being rejected
set_mode_fallback(pol, cur, mode) ==
    IF mode \notin DOMAIN pol.modes
    THEN [raised |-> NoExc, current_mode |-> InitialMode]
    ELSE [raised |-> NoExc, current_mode |-> mode]

\* PolicyEngine.set_mode: the exception raised and the mode left behind
set_mode(pol, cur, mode) ==
    IF "modes" \notin DOMAIN pol
    THEN [raised |-> Exc("KeyError", <<"modes">>, "", "", <<>>), current_mode |-> cur]
    ELSE IF mode \notin DOMAIN pol.modes
    THEN [raised |-> Exc("ValueError", <<"Invalid mode:", mode>>, "", "", <<>>),
          current_mode |-> cur]
    ELSE [raised |-> NoExc, current_mode |-> mode]

\* PolicyEngine.get_allowed_tools / get_blocked_tools, with the value of
\* self.current_mode that the subscript reads
get_allowed_tools(pol, cur) ==
    IF cur \in DOMAIN pol.modes
    THEN [raised |-> NoExc, value |-> pol.modes[cur].allowed_tools]
    ELSE [raised |-> Exc("KeyError", <<cur>>, "", "", <<>>), value |-> {}]

get_blocked_tools(pol, cur) ==
    IF cur \in DOMAIN pol.modes
    THEN [raised |-> NoExc, value |-> pol.modes[cur].blocked_tools]
    ELSE [raised |-> Exc("KeyError", <<cur>>, "", "", <<>>), value |-> {}]

\* The values self.current_mode had at the four places validate reads it on
\* a denial: the subscript of line 111, the message (106 has none; 118, 128),
\* the mode field (106, 121, 130) and the reason (122, 131).
Reads(policy_mode, msg_mode, exc_mode, reason_mode) ==
    [policy_mode |-> policy_mode, msg_mode |-> msg_mode,
     exc_mode |-> exc_mode, reason_mode |-> reason_mode]

\* one caller, no concurrent set_mode: every read sees the same mode
SameReads(m) == Reads(m, m, m, m)

GloballyBlockedReason == <<"Globally blocked - destructive operation">>
BlockedInModeReason(m) == <<"Blocked in", m, "mode">>
NotWhitelistedReason(m) == <<"Not whitelisted for", m, "mode">>

\* mutant: the global rule consulted only for tools the mode does not allow
validate_global_unless_allowed(pol, tool_name) ==
    /\ tool_name \in pol.global_rules.always_blocked
    /\ \A m \in DOMAIN pol.modes : tool_name \notin pol.modes[m].allowed_tools

\* PolicyEngine.validate lines 101-108
validate_global(pol, tool_name) ==
    tool_name \in pol.global_rules.always_blocked

\* mutant: allow takes precedence over deny within a mode
validate_blocked_unless_allowed(mode_policy, tool_name) ==
    /\ tool_name \in mode_policy.blocked_tools
    /\ tool_name \notin mode_policy.allowed_tools

\* PolicyEngine.validate lines 115-116
validate_blocked(mode_policy, tool_name) ==
    tool_name \in mode_policy.blocked_tools

\* mutant: default allow, the allow list is not consulted
validate_default_allow(mode_policy, tool_name) ==
    FALSE

\* PolicyEngine.validate lines 125-126
validate_not_allowed(mode_policy, tool_name) ==
    tool_name \notin mode_policy.allowed_tools

\* mutant: the mode's block list consulted before the global rule
validate_mode_first(pol, tool_name, rd) ==
    IF rd.policy_mode \in DOMAIN pol.modes
       /\ validate_blocked(pol.modes[rd.policy_mode], tool_name)
    THEN PolicyViolationError(
             <<"Tool", tool_name, "is blocked in", rd.msg_mode, "mode. Rationale:">>
                 \o pol.modes[rd.policy_mode].rationale,
             tool_name, rd.exc_mode, BlockedInModeReason(rd.reason_mode))
    ELSE IF validate_global(pol, tool_name)
    THEN PolicyViolationError(<<"Tool", tool_name, "is globally blocked and can never be executed">>,
                              tool_name, rd.exc_mode, GloballyBlockedReason)
    ELSE IF rd.policy_mode \notin DOMAIN pol.modes
    THEN Exc("KeyError", <<rd.policy_mode>>, "", "", <<>>)
    ELSE IF validate_not_allowed(pol.modes[rd.policy_mode], tool_name)
    THEN PolicyViolationError(
             <<"Tool", tool_name, "is not in the allowed list for", rd.msg_mode, "mode">>,
             tool_name, rd.exc_mode, NotWhitelistedReason(rd.reason_mode))
    ELSE NoExc

\* PolicyEngine.validate: the exception raised (NoExc when it returns True)
validate(pol, tool_name, rd) ==
    IF "global_rules" \notin DOMAIN pol
    THEN Exc("KeyError", <<"global_rules">>, "", "", <<>>)
    ELSE IF validate_global(pol, tool_name)
    THEN PolicyViolationError(<<"Tool", tool_name, "is globally blocked and can never be executed">>,
                              tool_name, rd.exc_mode, GloballyBlockedReason)
    ELSE IF "modes" \notin DOMAIN pol
    THEN Exc("KeyError", <<"modes">>, "", "", <<>>)
    ELSE IF rd.policy_mode \notin DOMAIN pol.modes
    THEN Exc("KeyError", <<rd.policy_mode>>, "", "", <<>>)
    ELSE LET mode_policy == pol.modes[rd.policy_mode]
         IN  IF validate_blocked(mode_policy, tool_name)
             THEN PolicyViolationError(
                      <<"Tool", tool_name, "is blocked in", rd.msg_mode, "mode. Rationale:">>
                          \o mode_policy.rationale,
                      tool_name, rd.exc_mode, BlockedInModeReason(rd.reason_mode))
             ELSE IF validate_not_allowed(mode_policy, tool_name)
             THEN PolicyViolationError(
                      <<"Tool", tool_name, "is not in the allowed list for", rd.msg_mode, "mode">>,
                      tool_name, rd.exc_mode, NotWhitelistedReason(rd.reason_mode))
             ELSE NoExc

-----------------------------------------------------------------------------
(* mcp_server/tools.py *)

ServiceNames == {"web-server", "api-gateway", "database", "cache"}

None == "<None>"

\* the keyword arguments of a request: the names given, the value of the
\* string-valued one (service_name, db_name) and of the integer-valued one
\* (count, lines), and the names whose value is of another type than the
\* tool's body can work with (a string for count or lines, a list for
\* service_name)
Arguments(keys, str, num) ==
    [keys |-> keys, str |-> str, num |-> num, mistyped |-> {}]

MistypedArguments(keys, str, num, mistyped) ==
    [Arguments(keys, str, num) EXCEPT !.mistyped = mistyped]

\* how a value of the wrong type shows in an audit record
Mistyped == "<mistyped>"

\* the details dictionary of an audit record: its one key and the value
Details(key, str, num) == [key |-> key, str |-> str, num |-> num]

NoServices == [s \in ServiceNames |-> ""]

\* the dictionary a tool returns; repr is "dict" for the method's value and
\* "str" for the module-level wrapper's str(result)
Result(status, kind, service, health, svcs, old_size, new_size) ==
    [repr |-> "dict", status |-> status, kind |-> kind, service |-> service,
     health |-> health, services |-> svcs, old_size |-> old_size, new_size |-> new_size]

NoResult == [Result(None, "", "", "", NoServices, 0, 0) EXCEPT !.repr = None]

str(result) == [result EXCEPT !.repr = "str"]

\* the backend after a call, with what the call returned or raised
Outcome(svcs, fleet, log, result) ==
    [services |-> svcs, fleet_size |-> fleet, execution_log |-> log,
     result |-> result, raised |-> NoExc]

TypeError(message) == Exc("TypeError", message, "", "", <<>>)

\* a call that ends by raising e
Raising(svcs, fleet, log, e) ==
    [Outcome(svcs, fleet, log, NoResult) EXCEPT !.raised = e]

\* mutant: the log is replaced by the new record instead of extended
log_action_overwrite(log, action, details) ==
    <<[action |-> action, details |-> details]>>

\* CloudInfrastructure._log_action
log_action(log, action, details) ==
    Append(log, [action |-> action, details |-> details])

\* CloudInfrastructure.set_service_health
set_service_health(svcs, service, status) ==
    IF service \in DOMAIN svcs THEN [svcs EXCEPT ![service] = status] ELSE svcs

\* CloudInfrastructure.get_service_status
get_service_status(svcs, fleet, log, service_name) ==
    LET logged == log_action(log, "get_service_status", Details("service", service_name, 0))
    IN  IF service_name # None
        THEN IF service_name \notin DOMAIN svcs
             THEN Outcome(svcs, fleet, logged,
                          Result("error", "not found", service_name, "", NoServices, 0, 0))
             ELSE Outcome(svcs, fleet, logged,
                          Result("", "service", service_name, svcs[service_name], NoServices, 0, 0))
        ELSE Outcome(svcs, fleet, logged, Result("", "services", "", "", svcs, fleet, fleet))

\* the simulated log has this many lines (read_logs, log_entries)
LogLines == 5

\* CloudInfrastructure.read_logs; new_size holds len(log_lines) for
\* 0 <= lines, old_size holds total_available
read_logs(svcs, fleet, log, lines) ==
    Outcome(svcs, fleet, log_action(log, "read_logs", Details("lines", "", lines)),
            Result("", "log_lines", "", "", NoServices, LogLines,
                   IF lines < LogLines THEN lines ELSE LogLines))

\* CloudInfrastructure.list_services
list_services(svcs, fleet, log) ==
    Outcome(svcs, fleet, log_action(log, "list_services", Details("", "", 0)),
            Result("", "list", "", "", [s \in ServiceNames |-> IF s \in DOMAIN svcs THEN "listed" ELSE ""], 0, 0))

\* mutant: the membership test of line 130 is missing, a service that does
\* not exist is entered as healthy
restart_service_creates(svcs, fleet, log, service_name) ==
    LET logged == log_action(log, "restart_service", Details("service", service_name, 0))
    IN  Outcome([s \in DOMAIN svcs \cup {service_name} |->
                    IF s = service_name THEN "healthy" ELSE svcs[s]],
                fleet, logged,
                Result("success", "restart", service_name, "healthy", NoServices, 0, 0))

\* CloudInfrastructure.restart_service
restart_service(svcs, fleet, log, service_name) ==
    LET logged == log_action(log, "restart_service", Details("service", service_name, 0))
    IN  IF service_name \notin DOMAIN svcs
        THEN Outcome(svcs, fleet, logged,
                     Result("error", "not found", service_name, "", NoServices, 0, 0))
        ELSE Outcome([svcs EXCEPT ![service_name] = "healthy"], fleet, logged,
                     Result("success", "restart", service_name, "healthy", NoServices, 0, 0))

MinFleet == 1
MaxFleet == 100

\* mutant: the lower limit compares with 0 instead of 1
scale_fleet_allows_zero(svcs, fleet, log, count) ==
    LET logged == log_action(log, "scale_fleet", Details("target_count", "", count))
    IN  IF count < 0
        THEN Outcome(svcs, fleet, logged,
                     Result("error", "at least 1", "", "", NoServices, 0, 0))
        ELSE IF count > MaxFleet
        THEN Outcome(svcs, fleet, logged,
                     Result("error", "cannot exceed 100", "", "", NoServices, 0, 0))
        ELSE Outcome(svcs, count, logged,
                     Result("success", "scale", "", "", NoServices, fleet, count))

\* CloudInfrastructure.scale_fleet
scale_fleet(svcs, fleet, log, count) ==
    LET logged == log_action(log, "scale_fleet", Details("target_count", "", count))
    IN  IF count < MinFleet
        THEN Outcome(svcs, fleet, logged,
                     Result("error", "at least 1", "", "", NoServices, 0, 0))
        ELSE IF count > MaxFleet
        THEN Outcome(svcs, fleet, logged,
                     Result("error", "cannot exceed 100", "", "", NoServices, 0, 0))
        ELSE Outcome(svcs, count, logged,
                     Result("success", "scale", "", "", NoServices, fleet, count))

\* CloudInfrastructure.delete_database
delete_database(svcs, fleet, log, db_name) ==
    Outcome(svcs, fleet, log_action(log, "delete_database", Details("db_name", db_name, 0)),
            Result("error", "should never execute", db_name, "", NoServices, 0, 0))

-----------------------------------------------------------------------------
(* mcp_server/server.py *)

\* _execute_tool_function, tool_map: the registered tool names
tool_map ==
    {"get_service_status", "read_logs", "restart_service", "scale_fleet",
     "delete_database", "list_services"}

\* the parameters of the wrappers of tools.py lines 227-258 that have no
\* default, and those that have one
RequiredParams(tool_name) ==
    CASE tool_name = "restart_service" -> {"service_name"}
      [] tool_name = "scale_fleet" -> {"count"}
      [] tool_name = "delete_database" -> {"db_name"}
      [] OTHER -> {}

OptionalParams(tool_name) ==
    CASE tool_name = "get_service_status" -> {"service_name"}
      [] tool_name = "read_logs" -> {"lines"}
      [] OTHER -> {}

\* tool_function(**arguments) binds: no parameter missing, no keyword unknown
Binds(tool_name, arguments) ==
    /\ RequiredParams(tool_name) \subseteq arguments.keys
    /\ arguments.keys \subseteq RequiredParams(tool_name) \cup OptionalParams(tool_name)

\* the parameter whose value the tool's body compares, slices or looks up
\* (tools.py lines 67-68, 111, 130, 168); delete_database only formats its own
UsedParams(tool_name) ==
    CASE tool_name \in {"get_service_status", "restart_service"} -> {"service_name"}
      [] tool_name = "read_logs" -> {"lines"}
      [] tool_name = "scale_fleet" -> {"count"}
      [] OTHER -> {}

\* the key under which a tool's audit record holds its argument
DetailsKey(tool_name) ==
    CASE tool_name \in {"get_service_status", "restart_service"} -> "service"
      [] tool_name = "read_logs" -> "lines"
      [] tool_name = "scale_fleet" -> "target_count"
      [] tool_name = "delete_database" -> "db_name"
      [] OTHER -> ""

\* a tool's body given a value of the wrong type: the audit record of its
\* first line is written, then the comparison, slice or lookup raises
\* (tools.py lines 65-68, 99-111, 128-130, 166-168)
body_type_error(tool_name, svcs, fleet, log) ==
    Raising(svcs, fleet,
            log_action(log, tool_name, Details(DetailsKey(tool_name), Mistyped, 0)),
            TypeError(<<"unsupported operand in", tool_name>>))

\* the binding of tool_function(**arguments) fails before the body runs
binding_type_error(tool_name, arguments) ==
    IF ~(arguments.keys \subseteq RequiredParams(tool_name) \cup OptionalParams(tool_name))
    THEN TypeError(<<tool_name, "got an unexpected keyword argument">>)
    ELSE TypeError(<<tool_name, "missing 1 required positional argument">>)

\* the call tool_function(**arguments) of a registered tool
tool_function(tool_name, arguments, svcs, fleet, log) ==
    LET value == IF "db_name" \in arguments.mistyped THEN Mistyped ELSE arguments.str
        out ==
            CASE tool_name = "get_service_status" ->
                     get_service_status(svcs, fleet, log,
                         IF "service_name" \in arguments.keys THEN arguments.str ELSE None)
              [] tool_name = "read_logs" ->
                     read_logs(svcs, fleet, log,
                         IF "lines" \in arguments.keys THEN arguments.num ELSE 10)
              [] tool_name = "restart_service" ->
                     restart_service(svcs, fleet, log, arguments.str)
              [] tool_name = "scale_fleet" ->
                     scale_fleet(svcs, fleet, log, arguments.num)
              [] tool_name = "delete_database" ->
                     delete_database(svcs, fleet, log, value)
              [] OTHER ->
                     list_services(svcs, fleet, log)
    IN  IF ~Binds(tool_name, arguments)
        THEN Raising(svcs, fleet, log, binding_type_error(tool_name, arguments))
        ELSE IF UsedParams(tool_name) \cap arguments.mistyped # {}
        THEN body_type_error(tool_name, svcs, fleet, log)
        ELSE [out EXCEPT !.result = str(out.result)]

\* mutant: a tool name tool_map does not have falls back to list_services
execute_tool_function_default(tool_name, arguments, svcs, fleet, log) ==
    LET name == IF tool_name \in tool_map THEN tool_name ELSE "list_services"
        out == tool_function(name, arguments, svcs, fleet, log)
    IN  IF out.raised.type = "TypeError"
        THEN [out |-> out, calls |-> 1,
              raised |-> Exc("ValueError",
                             <<"Invalid arguments for", name>> \o out.raised.message,
                             name, "", <<>>)]
        ELSE [out |-> out, calls |-> 1, raised |-> out.raised]

\* mutant: a call that raised TypeError is made a second time
execute_tool_function_retry(tool_name, arguments, svcs, fleet, log) ==
    IF tool_name \notin tool_map
    THEN [out |-> Outcome(svcs, fleet, log, NoResult), calls |-> 0,
          raised |-> Exc("ValueError", <<"Unknown tool:", tool_name>>, tool_name, "", <<>>)]
    ELSE LET first == tool_function(tool_name, arguments, svcs, fleet, log)
             out == tool_function(tool_name, arguments, first.services,
                                  first.fleet_size, first.execution_log)
         IN  IF first.raised.type = "TypeError"
             THEN [out |-> out, calls |-> 2,
                   raised |-> Exc("ValueError",
                                  <<"Invalid arguments for", tool_name>> \o out.raised.message,
                                  tool_name, "", <<>>)]
             ELSE [out |-> first, calls |-> 1, raised |-> first.raised]

\* _execute_tool_function: the backend it leaves, what it returns and the
\* exception it raises; calls counts the evaluations of tool_function(...)
execute_tool_function(tool_name, arguments, svcs, fleet, log) ==
    IF tool_name \notin tool_map
    THEN [out |-> Outcome(svcs, fleet, log, NoResult), calls |-> 0,
          raised |-> Exc("ValueError", <<"Unknown tool:", tool_name>>, tool_name, "", <<>>)]
    ELSE LET out == tool_function(tool_name, arguments, svcs, fleet, log)
         IN  IF out.raised.type = "TypeError"
             THEN [out |-> out, calls |-> 1,
                   raised |-> Exc("ValueError",
                                  <<"Invalid arguments for", tool_name>> \o out.raised.message,
                                  tool_name, "", <<>>)]
             ELSE [out |-> out, calls |-> 1, raised |-> out.raised]

\* PolicyEngine.get_policy_summary: what the text is made of
Summary(mode, description, allowed, blocked) ==
    [mode |-> mode, description |-> description, allowed |-> allowed, blocked |-> blocked]

NoSummary == Summary("", <<>>, {}, {})

\* a response of the server: the HTTP status, the fields of ToolResponse and
\* those of the set-mode response; the fields of the status and catalog
\* responses are empty
Response(http, success, result, error, policy_violation, blocked_reason, new_mode, allowed_tools) ==
    [http |-> http, success |-> success, result |-> result, error |-> error,
     policy_violation |-> policy_violation, blocked_reason |-> blocked_reason,
     new_mode |-> new_mode, allowed_tools |-> allowed_tools,
     current_mode |-> "", blocked_tools |-> {}, summary |-> NoSummary,
     recent_actions |-> <<>>]

NoResponse == Response(0, FALSE, NoResult, <<>>, FALSE, <<>>, "", {})

\* execute_tool lines 120-127
Denied(e) ==
    Response(200, FALSE, NoResult, <<"Policy violation:">> \o e.reason, TRUE, e.message, "", {})

\* execute_tool lines 132-136
Succeeded(result) ==
    Response(200, TRUE, result, <<>>, FALSE, <<>>, "", {})

\* mutant: the message of the exception is left out of the response
Failed_generic(e) ==
    Response(200, FALSE, NoResult, <<"Execution error:">>, FALSE, <<>>, "", {})

\* execute_tool lines 137-142
Failed(e) ==
    Response(200, FALSE, NoResult, <<"Execution error:">> \o e.message, FALSE, <<>>, "", {})

\* an exception no handler catches: the framework answers 500
Unhandled(e) ==
    Response(500, FALSE, NoResult, <<e.type>> \o e.message, FALSE, <<>>, "", {})

\* mutant: the except clause of lines 120-127 does not return
passes_policy_always(e) ==
    TRUE

\* execute_tool lines 118-129: whether the request goes on to
\* _execute_tool_function after validate raised e (NoExc: returned True)
passes_policy(e) ==
    e = NoExc

\* mutant: only a PolicyViolationError stops the request; any other
\* exception of validate is swallowed and the tool runs
execute_tool_handler_fail_open(e) ==
    IF e.type = "PolicyViolationError" THEN [pc |-> "idle", resp |-> Denied(e)]
    ELSE [pc |-> "dispatch", resp |-> NoResponse]

\* execute_tool lines 118-129 after validate ended with e: where the
\* request goes and what is answered
execute_tool_handler(e) ==
    IF passes_policy(e) THEN [pc |-> "dispatch", resp |-> NoResponse]
    ELSE IF e.type = "PolicyViolationError" THEN [pc |-> "idle", resp |-> Denied(e)]
    ELSE [pc |-> "idle", resp |-> Unhandled(e)]

NoReads == Reads("", "", "", "")

\* a worker of the server: where it stands in its request, the request, the
\* reads of current_mode made so far, what validate raised, the response
\* sent, and how often the request entered validate (checks), looked a tool
\* up in tool_map (lookups) and called a tool's function (calls)
Worker(pc, endpoint, tool_name, arguments, mode, rd, exc, resp, checks, lookups, calls) ==
    [pc |-> pc, endpoint |-> endpoint, tool_name |-> tool_name,
     arguments |-> arguments, mode |-> mode, rd |-> rd, exc |-> exc,
     resp |-> resp, checks |-> checks, lookups |-> lookups, calls |-> calls]

NoArguments == Arguments({}, "", 0)

NoWorker == Worker("idle", "", "", NoArguments, "", NoReads, NoExc, NoResponse, 0, 0, 0)

\* the tool requests a caller sends
ToolRequests ==
    { [tool_name |-> "get_service_status", arguments |-> NoArguments],
      [tool_name |-> "restart_service", arguments |-> Arguments({"service_name"}, "web-server", 0)],
      [tool_name |-> "scale_fleet", arguments |-> Arguments({"count"}, "", 5)],
      [tool_name |-> "delete_database", arguments |-> Arguments({"db_name"}, "prod", 0)],
      [tool_name |-> "unregistered_tool", arguments |-> NoArguments] }

\* the policy of Scenario A of the specification on the tools of the catalog
OpsPolicy ==
    PolicyDocument({"delete_database"},
        [m \in ModeNames |->
            IF m = "NORMAL"
            THEN ModeRules(m, {"get_service_status", "read_logs", "list_services"},
                              {"restart_service", "scale_fleet"})
            ELSE ModeRules(m, {"get_service_status", "read_logs", "list_services",
                               "restart_service", "scale_fleet"}, {})])

\* a policy whose modes allow the globally blocked tool, list tools as both
\* allowed and blocked, and allow a tool the registry does not have
OverlapPolicy ==
    PolicyDocument({"delete_database"},
        [m \in ModeNames |->
            IF m = "NORMAL"
            THEN ModeRules(m, {"get_service_status", "delete_database", "restart_service"},
                              {"restart_service", "scale_fleet"})
            ELSE ModeRules(m, {"restart_service", "scale_fleet", "delete_database",
                               "unregistered_tool"},
                              {"delete_database", "get_service_status"})])

\* a policy without a NORMAL mode and without global rules
ElevatedOnlyPolicy ==
    PolicyDocument({},
        [m \in {"EMERGENCY"} |->
            ModeRules(m, {"get_service_status", "restart_service", "delete_database"}, {})])

GatewayPolicies == {OpsPolicy, OverlapPolicy, ElevatedOnlyPolicy}

-----------------------------------------------------------------------------
(* SpecEngine: one caller of a PolicyEngine *)

NoRet ==
    [op |-> "none", arg |-> "", raised |-> NoExc, before |-> "",
     args |-> NoArguments, context |-> NoArguments]

\* mutant: a caller that names an override in the context is let through
validate_call_override(pol, cur, tool_name, args, context) ==
    IF "override" \in context.keys THEN NoExc
    ELSE validate(pol, tool_name, SameReads(cur))

\* PolicyEngine.validate(tool_name, args, context) called by one caller while
\* the mode is cur: lines 98-99 replace a missing args or context by {} and
\* nothing reads either of them afterwards
validate_call(pol, cur, tool_name, args, context) ==
    validate(pol, tool_name, SameReads(cur))

InitBackend ==
    /\ services = [s \in ServiceNames |-> "healthy"]
    /\ fleet_size = 3
    /\ execution_log = <<>>

InitEngine ==
    /\ policy \in PolicyFamily
    /\ current_mode = InitialMode
    /\ InitBackend
    /\ workers = [w \in Workers |-> NoWorker]
    /\ ret = NoRet
    /\ last_set = ""

EngineSetMode(mode) ==
    LET r == set_mode(policy, current_mode, mode)
    IN  /\ current_mode' = r.current_mode
        /\ ret' = [op |-> "set_mode", arg |-> mode, raised |-> r.raised, before |-> current_mode,
                   args |-> NoArguments, context |-> NoArguments]
        /\ last_set' = IF r.raised = NoExc THEN mode ELSE last_set
        /\ UNCHANGED <<policy, backend, workers>>

EngineValidate(tool_name, args, context) ==
    /\ ret' = [op |-> "validate", arg |-> tool_name,
               raised |-> validate_call(policy, current_mode, tool_name, args, context),
               before |-> current_mode, args |-> args, context |-> context]
    /\ UNCHANGED <<policy, current_mode, backend, workers, last_set>>

\* validate(tool_name): args and context take their default
NextEngine ==
    \/ \E mode \in ModeInputs : EngineSetMode(mode)
    \/ \E tool_name \in ToolInputs : EngineValidate(tool_name, NoArguments, NoArguments)

SpecEngine == InitEngine /\ [][NextEngine]_vars

-----------------------------------------------------------------------------
(* SpecLoad: a PolicyEngine is constructed from a policy file, then called *)

\* what is found at policy_path: whether the file exists, whether json.load
\* parses it, and the document it then yields
Source(name, exists, parses, document) ==
    [name |-> name, exists |-> exists, parses |-> parses, document |-> document]

\* no PolicyEngine instance
NoPolicy == [no_engine |-> TRUE]

\* documents that parse but lack modes, global_rules, or both
NoModesDocument == [policy_name |-> "ops", global_rules |-> [always_blocked |-> {"delete_database"}]]
NoGlobalRulesDocument == [policy_name |-> "ops", modes |-> OpsPolicy.modes]
NoKeysDocument == [policy_name |-> "ops"]

PolicySources ==
    { Source("missing.json", FALSE, FALSE, NoPolicy),
      Source("malformed.json", TRUE, FALSE, NoPolicy),
      Source("no_modes.json", TRUE, TRUE, NoModesDocument),
      Source("no_global_rules.json", TRUE, TRUE, NoGlobalRulesDocument),
      Source("no_keys.json", TRUE, TRUE, NoKeysDocument),
      Source("ops_policy.json", TRUE, TRUE, OpsPolicy),
      Source("overlap_policy.json", TRUE, TRUE, OverlapPolicy),
      Source("elevated_only_policy.json", TRUE, TRUE, ElevatedOnlyPolicy) }

\* PolicyEngine._load_policy: the exception raised, or the document returned
load_policy(source) ==
    IF ~source.exists
    THEN [raised |-> Exc("FileNotFoundError", <<"Policy file not found:", source.name>>, "", "", <<>>),
          policy |-> NoPolicy]
    ELSE IF ~source.parses
    THEN [raised |-> Exc("JSONDecodeError", <<source.name>>, "", "", <<>>),
          policy |-> NoPolicy]
    ELSE [raised |-> NoExc, policy |-> source.document]

InitLoad ==
    /\ policy = NoPolicy
    /\ current_mode = None
    /\ InitBackend
    /\ workers = [w \in Workers |-> NoWorker]
    /\ ret = NoRet
    /\ last_set = ""

\* a PolicyEngine instance exists
Constructed == policy # NoPolicy

\* PolicyEngine.__init__: the policy is loaded, then the mode is set; an
\* exception of _load_policy leaves no instance
Construct(source) ==
    /\ ~Constructed
    /\ LET r == load_policy(source)
       IN  /\ policy' = r.policy
           /\ current_mode' = IF r.raised = NoExc THEN InitialMode ELSE current_mode
           /\ ret' = [op |-> "__init__", arg |-> source.name, raised |-> r.raised,
                      before |-> current_mode, args |-> NoArguments, context |-> NoArguments]
    /\ UNCHANGED <<backend, workers, last_set>>

NextLoad ==
    \/ \E source \in PolicySources : Construct(source)
    \/ Constructed /\ \E mode \in ModeInputs : EngineSetMode(mode)
    \/ Constructed /\ \E tool_name \in tool_map \cup ToolInputs :
           EngineValidate(tool_name, NoArguments, NoArguments)

SpecLoad == InitLoad /\ [][NextLoad]_vars

-----------------------------------------------------------------------------
(* SpecValidate: one caller of a PolicyEngine who passes args and context *)

\* the args a caller passes to validate
ArgumentInputs ==
    {NoArguments, Arguments({"service_name"}, "web-server", 0), Arguments({"count"}, "", 5)}

\* the context a caller passes to validate
ContextInputs ==
    {NoArguments, Arguments({"override"}, "true", 0), Arguments({"agent"}, "sre-bot", 0)}

InitValidate ==
    /\ policy \in GatewayPolicies
    /\ current_mode = InitialMode
    /\ InitBackend
    /\ workers = [w \in Workers |-> NoWorker]
    /\ ret = NoRet
    /\ last_set = ""

NextValidate ==
    \/ \E mode \in ModeInputs : EngineSetMode(mode)
    \/ \E tool_name \in ToolInputs \cup {"scale_fleet"},
          args \in ArgumentInputs, context \in ContextInputs :
           EngineValidate(tool_name, args, context)

SpecValidate == InitValidate /\ [][NextValidate]_vars

-----------------------------------------------------------------------------
(* Spec: the gateway with concurrent workers *)

Init ==
    /\ policy \in GatewayPolicies
    /\ current_mode = InitialMode
    /\ InitBackend
    /\ workers = [w \in Workers |-> NoWorker]
    /\ ret = NoRet
    /\ last_set = ""

\* the request of worker w ends with response resp
Respond(w, resp) ==
    workers' = [workers EXCEPT ![w].pc = "idle", ![w].resp = resp, ![w].rd = NoReads]

\* POST /tools/execute, lines 109-115: the request is taken up
ExecuteToolBegin(w, req) ==
    /\ workers[w].pc = "idle"
    /\ workers' = [workers EXCEPT ![w] =
           Worker("validate_global", "execute_tool", req.tool_name, req.arguments, "",
                  NoReads, NoExc, NoResponse, 1, 0, 0)]
    /\ UNCHANGED <<engine, backend, ret, last_set>>

\* validate ended with e in worker w: execute_tool goes on or answers; rd
\* keeps the mode under which validate returned True
ValidateEnds(w, e, rd) ==
    LET h == execute_tool_handler(e)
    IN  workers' = [workers EXCEPT ![w].pc = h.pc, ![w].resp = h.resp,
                                   ![w].exc = e, ![w].rd = rd]

\* mutant: a request for a globally blocked tool puts the engine back into
\* the mode of construction before the denial is raised
ValidateGlobal_resets_mode(w) ==
    /\ workers[w].pc = "validate_global"
    /\ IF validate_global(policy, workers[w].tool_name)
       THEN /\ ValidateEnds(w, validate(policy, workers[w].tool_name,
                                        [workers[w].rd EXCEPT !.exc_mode = current_mode]),
                            NoReads)
            /\ current_mode' = InitialMode
       ELSE /\ workers' = [workers EXCEPT ![w].pc = "validate_mode"]
            /\ current_mode' = current_mode
    /\ UNCHANGED <<policy, backend, ret, last_set>>

\* validate lines 101-108: the global rule; on a match the exception is
\* built with the mode read at line 106 and raised
ValidateGlobal(w) ==
    /\ workers[w].pc = "validate_global"
    /\ IF validate_global(policy, workers[w].tool_name)
       THEN ValidateEnds(w, validate(policy, workers[w].tool_name,
                                     [workers[w].rd EXCEPT !.exc_mode = current_mode]),
                         NoReads)
       ELSE workers' = [workers EXCEPT ![w].pc = "validate_mode"]
    /\ UNCHANGED <<engine, backend, ret, last_set>>

\* validate lines 110-126: self.current_mode is read for the subscript and
\* the tool is looked for in that mode's two lists; lines 134-136 when it is
\* in neither the block list nor missing from the allow list
ValidateMode(w) ==
    /\ workers[w].pc = "validate_mode"
    /\ LET rd == [workers[w].rd EXCEPT !.policy_mode = current_mode]
           e == validate(policy, workers[w].tool_name, rd)
       IN  IF e.type = "PolicyViolationError"
           THEN workers' = [workers EXCEPT ![w].pc = "validate_message", ![w].rd = rd]
           ELSE ValidateEnds(w, e, IF e = NoExc THEN rd ELSE NoReads)
    /\ UNCHANGED <<engine, backend, ret, last_set>>

\* validate line 118 or 128: self.current_mode is read for the message
ValidateMessage(w) ==
    /\ workers[w].pc = "validate_message"
    /\ workers' = [workers EXCEPT ![w].pc = "validate_exc_mode",
                                  ![w].rd.msg_mode = current_mode]
    /\ UNCHANGED <<engine, backend, ret, last_set>>

\* validate line 121 or 130: self.current_mode is read for the mode field
ValidateExcMode(w) ==
    /\ workers[w].pc = "validate_exc_mode"
    /\ workers' = [workers EXCEPT ![w].pc = "validate_reason",
                                  ![w].rd.exc_mode = current_mode]
    /\ UNCHANGED <<engine, backend, ret, last_set>>

\* validate line 122 or 131: self.current_mode is read for the reason and
\* the exception is raised
ValidateReason(w) ==
    /\ workers[w].pc = "validate_reason"
    /\ ValidateEnds(w, validate(policy, workers[w].tool_name,
                                [workers[w].rd EXCEPT !.reason_mode = current_mode]),
                    NoReads)
    /\ UNCHANGED <<engine, backend, ret, last_set>>

\* execute_tool lines 129-142: _execute_tool_function runs and its result or
\* its exception becomes the response; the tool's body (the audit record,
\* then its effect) runs as one step
Dispatch(w) ==
    /\ workers[w].pc = "dispatch"
    /\ Len(execution_log) < MaxLog
    /\ LET r == execute_tool_function(workers[w].tool_name, workers[w].arguments,
                                      services, fleet_size, execution_log)
       IN  /\ services' = r.out.services
           /\ fleet_size' = r.out.fleet_size
           /\ execution_log' = r.out.execution_log
           /\ workers' = [workers EXCEPT
                  ![w].pc = "idle", ![w].lookups = 1, ![w].calls = r.calls,
                  ![w].resp = IF r.raised = NoExc THEN Succeeded(r.out.result)
                              ELSE Failed(r.raised)]
    /\ UNCHANGED <<engine, ret, last_set>>

\* POST /policy/set-mode, line 91: policy_engine.set_mode; an invalid mode
\* is answered with status 400
SetModeBegin(w, mode) ==
    /\ workers[w].pc = "idle"
    /\ LET r == set_mode(policy, current_mode, mode)
       IN  /\ current_mode' = r.current_mode
           /\ last_set' = IF r.raised = NoExc THEN mode ELSE last_set
           /\ workers' = [workers EXCEPT ![w] =
                  IF r.raised = NoExc
                  THEN Worker("set_mode_respond", "set_mode", "", NoArguments, mode,
                              NoReads, NoExc, NoResponse, 0, 0, 0)
                  ELSE Worker("idle", "set_mode", "", NoArguments, mode, NoReads, r.raised,
                              Response(400, FALSE, NoResult, r.raised.message, FALSE, <<>>, "", {}),
                              0, 0, 0)]
    /\ UNCHANGED <<policy, backend, ret>>

\* POST /policy/set-mode, lines 92-96: the response is built, with
\* get_allowed_tools reading self.current_mode again
SetModeRespond(w) ==
    /\ workers[w].pc = "set_mode_respond"
    /\ LET a == get_allowed_tools(policy, current_mode)
       IN  Respond(w, Response(200, TRUE, NoResult, <<>>, FALSE, <<>>,
                               workers[w].mode, a.value))
    /\ UNCHANGED <<engine, backend, ret, last_set>>

\* the incidents the demo simulates
IncidentServices == {"web-server", "no-such-service"}
IncidentStatuses == {"critical"}

\* POST /infrastructure/simulate-incident
SimulateIncident(service, status) ==
    /\ services' = set_service_health(services, service, status)
    /\ UNCHANGED <<engine, fleet_size, execution_log, workers, ret, last_set>>

\* a request of worker w to a read-only endpoint is taken up
Query(w, pc, endpoint, resp) ==
    workers' = [workers EXCEPT ![w] =
        Worker(pc, endpoint, "", NoArguments, "", NoReads, NoExc, resp, 0, 0, 0)]

\* a read-only request of worker w goes on to pc or, when the engine call
\* raised e, ends with status 500
QueryGoesOn(w, pc, e, resp) ==
    workers' = [workers EXCEPT
        ![w].pc = IF e = NoExc THEN pc ELSE "idle",
        ![w].exc = e,
        ![w].resp = IF e = NoExc THEN resp ELSE Unhandled(e)]

\* GET /, lines 65-73
Root(w) ==
    /\ workers[w].pc = "idle"
    /\ Query(w, "idle", "root",
             [Response(200, FALSE, NoResult, <<>>, FALSE, <<>>, "", {})
                  EXCEPT !.current_mode = current_mode])
    /\ UNCHANGED <<engine, backend, ret, last_set>>

\* GET /policy/status, line 80: get_current_mode
PolicyStatusBegin(w) ==
    /\ workers[w].pc = "idle"
    /\ Query(w, "status_allowed", "policy_status",
             [NoResponse EXCEPT !.current_mode = current_mode])
    /\ UNCHANGED <<engine, backend, ret, last_set>>

\* GET /policy/status, line 81: get_allowed_tools
PolicyStatusAllowed(w) ==
    /\ workers[w].pc = "status_allowed"
    /\ LET a == get_allowed_tools(policy, current_mode)
       IN  QueryGoesOn(w, "status_blocked", a.raised,
                       [workers[w].resp EXCEPT !.allowed_tools = a.value])
    /\ UNCHANGED <<engine, backend, ret, last_set>>

\* GET /policy/status, line 82: get_blocked_tools
PolicyStatusBlocked(w) ==
    /\ workers[w].pc = "status_blocked"
    /\ LET b == get_blocked_tools(policy, current_mode)
       IN  QueryGoesOn(w, "status_summary", b.raised,
                       [workers[w].resp EXCEPT !.blocked_tools = b.value])
    /\ UNCHANGED <<engine, backend, ret, last_set>>

\* GET /policy/status, line 83: get_policy_summary, line 140: the rules of
\* the mode self.current_mode names are taken
PolicyStatusSummary(w) ==
    /\ workers[w].pc = "status_summary"
    /\ LET a == get_allowed_tools(policy, current_mode)
           b == get_blocked_tools(policy, current_mode)
       IN  QueryGoesOn(w, "status_summary_text", a.raised,
               [workers[w].resp EXCEPT !.summary =
                   Summary("", IF a.raised = NoExc
                               THEN policy.modes[current_mode].description ELSE <<>>,
                           a.value, b.value)])
    /\ UNCHANGED <<engine, backend, ret, last_set>>

\* get_policy_summary line 146: self.current_mode is read for the text; the
\* response of lines 79-84 is sent
PolicyStatusSummaryText(w) ==
    /\ workers[w].pc = "status_summary_text"
    /\ Respond(w, [workers[w].resp EXCEPT !.http = 200,
                                          !.summary.mode = current_mode])
    /\ UNCHANGED <<engine, backend, ret, last_set>>

\* execution_log[-10:]
RecentActionsShown == 10

recent_actions(log) ==
    IF Len(log) <= RecentActionsShown THEN log
    ELSE SubSeq(log, Len(log) - RecentActionsShown + 1, Len(log))

\* GET /infrastructure/status, lines 173-180
InfrastructureStatus(w) ==
    /\ workers[w].pc = "idle"
    /\ Query(w, "idle", "infrastructure_status",
             [Response(200, FALSE,
                       Result("", "infrastructure", "", "", services, fleet_size, fleet_size),
                       <<>>, FALSE, <<>>, "", {})
                  EXCEPT !.recent_actions = recent_actions(execution_log)])
    /\ UNCHANGED <<engine, backend, ret, last_set>>

\* GET /tools/catalog, line 266: get_current_mode
ToolCatalogBegin(w) ==
    /\ workers[w].pc = "idle"
    /\ Query(w, "catalog_allowed", "tool_catalog",
             [NoResponse EXCEPT !.current_mode = current_mode])
    /\ UNCHANGED <<engine, backend, ret, last_set>>

\* mutant: the handler strikes the globally blocked tools from the list
\* get_allowed_tools returned, which is the list of the policy document itself
ToolCatalogAllowed_filters_in_place(w) ==
    /\ workers[w].pc = "catalog_allowed"
    /\ LET a == get_allowed_tools(policy, current_mode)
           shown == a.value \ policy.global_rules.always_blocked
       IN  /\ QueryGoesOn(w, "idle", a.raised,
                          [workers[w].resp EXCEPT !.http = 200, !.allowed_tools = shown])
           /\ policy' = IF a.raised = NoExc
                        THEN [policy EXCEPT !.modes[current_mode].allowed_tools = shown]
                        ELSE policy
    /\ UNCHANGED <<current_mode, backend, ret, last_set>>

\* GET /tools/catalog, line 267: get_allowed_tools; the response is sent
ToolCatalogAllowed(w) ==
    /\ workers[w].pc = "catalog_allowed"
    /\ LET a == get_allowed_tools(policy, current_mode)
       IN  QueryGoesOn(w, "idle", a.raised,
                       [workers[w].resp EXCEPT !.http = 200, !.allowed_tools = a.value])
    /\ UNCHANGED <<engine, backend, ret, last_set>>

Next ==
    \/ \E w \in Workers, req \in ToolRequests : ExecuteToolBegin(w, req)
    \/ \E w \in Workers : ValidateGlobal(w)
    \/ \E w \in Workers : ValidateMode(w)
    \/ \E w \in Workers : ValidateMessage(w)
    \/ \E w \in Workers : ValidateExcMode(w)
    \/ \E w \in Workers : ValidateReason(w)
    \/ \E w \in Workers : Dispatch(w)
    \/ \E w \in Workers, mode \in ModeInputs : SetModeBegin(w, mode)
    \/ \E w \in Workers : SetModeRespond(w)
    \/ \E service \in IncidentServices, status \in IncidentStatuses :
           SimulateIncident(service, status)

Spec == Init /\ [][Next]_vars

-----------------------------------------------------------------------------
(* SpecStatus: status reports and mode changes of concurrent workers; every
   call of the engine a handler makes is a step of its own *)

NextStatus ==
    \/ \E w \in Workers, mode \in ModeInputs : SetModeBegin(w, mode)
    \/ \E w \in Workers : SetModeRespond(w)
    \/ \E w \in Workers : PolicyStatusBegin(w)
    \/ \E w \in Workers : PolicyStatusAllowed(w)
    \/ \E w \in Workers : PolicyStatusBlocked(w)
    \/ \E w \in Workers : PolicyStatusSummary(w)
    \/ \E w \in Workers : PolicyStatusSummaryText(w)

SpecStatus == Init /\ [][NextStatus]_vars

-----------------------------------------------------------------------------
(* SpecGateway: the gateway with one caller, every endpoint and tool
   requests whose arguments do not fit *)

\* the one caller
Caller == "w1"

\* the tool requests of the one caller: those of ToolRequests, the two
\* read-only tools left, arguments that do not bind (a required one missing,
\* an unknown keyword), a value of the wrong type, and values the tool
\* itself turns down
GatewayRequests ==
    ToolRequests \cup
    { [tool_name |-> "read_logs", arguments |-> Arguments({"lines"}, "", 2)],
      [tool_name |-> "list_services", arguments |-> NoArguments],
      [tool_name |-> "restart_service", arguments |-> NoArguments],
      [tool_name |-> "get_service_status", arguments |-> Arguments({"service"}, "web-server", 0)],
      [tool_name |-> "scale_fleet", arguments |-> MistypedArguments({"count"}, "", 0, {"count"})],
      [tool_name |-> "scale_fleet", arguments |-> Arguments({"count"}, "", 0)],
      [tool_name |-> "scale_fleet", arguments |-> Arguments({"count"}, "", 101)],
      [tool_name |-> "scale_fleet", arguments |-> Arguments({"count"}, "", 1)],
      [tool_name |-> "scale_fleet", arguments |-> Arguments({"count"}, "", 100)],
      [tool_name |-> "restart_service", arguments |-> Arguments({"service_name"}, "no-such-service", 0)],
      [tool_name |-> "get_service_status", arguments |-> Arguments({"service_name"}, "no-such-service", 0)] }

NextGateway ==
    \/ \E req \in GatewayRequests : ExecuteToolBegin(Caller, req)
    \/ ValidateGlobal(Caller)
    \/ ValidateMode(Caller)
    \/ ValidateMessage(Caller)
    \/ ValidateExcMode(Caller)
    \/ ValidateReason(Caller)
    \/ Dispatch(Caller)
    \/ \E mode \in ModeInputs : SetModeBegin(Caller, mode)
    \/ SetModeRespond(Caller)
    \/ \E service \in IncidentServices, status \in IncidentStatuses :
           SimulateIncident(service, status)
    \/ Root(Caller)
    \/ PolicyStatusBegin(Caller)
    \/ PolicyStatusAllowed(Caller)
    \/ PolicyStatusBlocked(Caller)
    \/ PolicyStatusSummary(Caller)
    \/ PolicyStatusSummaryText(Caller)
    \/ InfrastructureStatus(Caller)
    \/ ToolCatalogBegin(Caller)
    \/ ToolCatalogAllowed(Caller)

SpecGateway == Init /\ [][NextGateway]_vars

-----------------------------------------------------------------------------
(* Claims about PolicyEngine, checked under SpecEngine *)

\* the last call was validate(t) made while the current mode was the
\* configured mode m
Validated(t, m) ==
    /\ ret.op = "validate"
    /\ ret.arg = t
    /\ ret.before = m
    /\ m \in DOMAIN policy.modes

AlwaysBlocked == policy.global_rules.always_blocked

\* Scenario A of the specification, on the tools of PolicyTools
ScenarioA ==
    PolicyDocument({"delete_database"},
        [m \in ModeNames |->
            IF m = "NORMAL"
            THEN ModeRules(m, {"get_service_status"}, {"restart_service"})
            ELSE ModeRules(m, {"get_service_status", "restart_service"}, {})])

\* C1: in every configured mode m, validate(t) of a tool t of always_blocked
\* denies with the globally-blocked reason, never with the blocked-in-mode or
\* the not-whitelisted one, whatever m's allowed_tools and blocked_tools say.
C1_GloballyBlocked ==
    \A t \in ToolInputs, m \in ModeNames :
        (Validated(t, m) /\ t \in AlwaysBlocked) =>
            /\ ret.raised.type = "PolicyViolationError"
            /\ ret.raised.reason = GloballyBlockedReason
            /\ ret.raised.reason # BlockedInModeReason(m)
            /\ ret.raised.reason # NotWhitelistedReason(m)

\* a globally blocked tool that the mode both allows and blocks was denied
C1_Witness ==
    \E t \in ToolInputs, m \in ModeNames :
        /\ Validated(t, m) /\ t \in AlwaysBlocked
        /\ t \in policy.modes[m].allowed_tools
        /\ t \in policy.modes[m].blocked_tools
        /\ m = "EMERGENCY"
        /\ ret.raised.reason = GloballyBlockedReason

\* C3: a tool outside always_blocked that is in m.blocked_tools is denied
\* under mode m with the blocked-in-mode reason and m's rationale, also when
\* it is in m.allowed_tools.
C3_BlockedInMode ==
    \A t \in ToolInputs, m \in ModeNames :
        (Validated(t, m) /\ t \notin AlwaysBlocked /\ t \in policy.modes[m].blocked_tools) =>
            /\ ret.raised.type = "PolicyViolationError"
            /\ ret.raised.reason = BlockedInModeReason(m)
            /\ ret.raised.mode = m
            /\ ret.raised.message =
                   <<"Tool", t, "is blocked in", m, "mode. Rationale:">>
                       \o policy.modes[m].rationale

\* a tool that the mode both allows and blocks was denied as blocked in mode
C3_Witness ==
    \E t \in ToolInputs, m \in ModeNames :
        /\ Validated(t, m) /\ t \notin AlwaysBlocked
        /\ t \in policy.modes[m].blocked_tools
        /\ t \in policy.modes[m].allowed_tools
        /\ ret.raised.reason = BlockedInModeReason(m)

\* C4: a tool in none of always_blocked, m.blocked_tools and m.allowed_tools
\* is denied under mode m with the not-whitelisted reason, also a tool name
\* that no policy and no registry knows.
C4_DefaultDeny ==
    \A t \in ToolInputs, m \in ModeNames :
        (/\ Validated(t, m)
         /\ t \notin AlwaysBlocked
         /\ t \notin policy.modes[m].blocked_tools
         /\ t \notin policy.modes[m].allowed_tools) =>
            /\ ret.raised.type = "PolicyViolationError"
            /\ ret.raised.reason = NotWhitelistedReason(m)
            /\ ret.raised.mode = m

\* Scenario C: the unknown tool was denied as not whitelisted in NORMAL
C4_Witness ==
    /\ Validated("unregistered_tool", "NORMAL")
    /\ policy = ScenarioA
    /\ ret.raised.reason = NotWhitelistedReason("NORMAL")

\* the reason the first matching rule of the order global block, mode block,
\* not whitelisted gives; <<>> when no rule matches
FirstMatch(t, m) ==
    IF t \in AlwaysBlocked THEN GloballyBlockedReason
    ELSE IF t \in policy.modes[m].blocked_tools THEN BlockedInModeReason(m)
    ELSE IF t \notin policy.modes[m].allowed_tools THEN NotWhitelistedReason(m)
    ELSE <<>>

\* C5: under a configured mode m validate(t) returns True exactly when t is
\* not in always_blocked, not in m.blocked_tools and in m.allowed_tools; in
\* every other case it raises the policy violation whose reason is the one of
\* the first matching rule.
C5_AllowIff ==
    \A t \in ToolInputs, m \in ModeNames :
        Validated(t, m) =>
            /\ (ret.raised = NoExc) <=>
                   (/\ t \notin AlwaysBlocked
                    /\ t \notin policy.modes[m].blocked_tools
                    /\ t \in policy.modes[m].allowed_tools)
            /\ ret.raised # NoExc =>
                   /\ ret.raised.type = "PolicyViolationError"
                   /\ ret.raised.reason = FirstMatch(t, m)
                   /\ ret.raised.reason \in
                          {GloballyBlockedReason, BlockedInModeReason(m), NotWhitelistedReason(m)}

\* a tool matching all three rules was denied as globally blocked
C5_Witness ==
    \E t \in ToolInputs, m \in ModeNames :
        /\ Validated(t, m)
        /\ t \in AlwaysBlocked
        /\ t \in policy.modes[m].blocked_tools
        /\ t \notin policy.modes[m].allowed_tools
        /\ ret.raised.reason = GloballyBlockedReason
        /\ \E u \in ToolInputs :
               /\ u \notin AlwaysBlocked
               /\ u \notin policy.modes[m].blocked_tools
               /\ u \in policy.modes[m].allowed_tools

\* C6: set_mode(x) with x no key of the modes map raises the invalid-mode
\* error and leaves the current mode as it was before the call.
C6_InvalidModeKeepsMode ==
    (ret.op = "set_mode" /\ ret.arg \notin DOMAIN policy.modes) =>
        /\ ret.raised.type = "ValueError"
        /\ current_mode = ret.before
        /\ last_set # ret.arg

\* an invalid set_mode was made after a valid one had changed the mode
C6_Witness ==
    /\ ret.op = "set_mode"
    /\ ret.arg = "MAINTENANCE"
    /\ ret.raised.type = "ValueError"
    /\ last_set = "EMERGENCY"
    /\ current_mode = "EMERGENCY"

\* C8: a validate call made after a successful set_mode(m), and before the
\* next one, is decided under m's rules only; with the Scenario A policy
\* restart_service is denied as blocked in mode while the mode is NORMAL and
\* allowed after set_mode("EMERGENCY").
C8_DecidedUnderLastSetMode ==
    /\ (ret.op = "validate" /\ last_set # "") =>
           /\ last_set \in DOMAIN policy.modes
           /\ ret.before = last_set
           /\ ret.raised.reason = FirstMatch(ret.arg, last_set)
           /\ ret.raised # NoExc => ret.raised.mode = last_set
    /\ (policy = ScenarioA /\ ret.op = "validate" /\ ret.arg = "restart_service") =>
           /\ last_set \in {"", "NORMAL"} =>
                  ret.raised.reason = BlockedInModeReason("NORMAL")
           /\ last_set = "EMERGENCY" => ret.raised = NoExc

\* Scenario A: restart_service was allowed after set_mode("EMERGENCY")
C8_Witness ==
    /\ policy = ScenarioA
    /\ last_set = "EMERGENCY"
    /\ ret.op = "validate"
    /\ ret.arg = "restart_service"
    /\ ret.raised = NoExc

\* C10: the current mode is a key of the loaded policy's modes map in every
\* reachable state, for every policy document that loads.
C10_CurrentModeConfigured ==
    current_mode \in DOMAIN policy.modes

-----------------------------------------------------------------------------
(* Claims about the gateway, checked under Spec *)

\* C2: whatever set_mode and execute_tool requests the gateway has served,
\* in whatever interleaving, no operation of a globally blocked tool was
\* invoked: the audit log holds no record of such a tool, and no request for
\* one got as far as the registry.
C2_GloballyBlockedNeverRuns ==
    /\ \A i \in 1..Len(execution_log) :
           execution_log[i].action \notin policy.global_rules.always_blocked
    /\ \A w \in Workers :
           (/\ workers[w].endpoint = "execute_tool"
            /\ workers[w].tool_name \in policy.global_rules.always_blocked) =>
               /\ workers[w].pc # "dispatch"
               /\ workers[w].lookups = 0
               /\ workers[w].calls = 0

\* delete_database was asked for and denied in a mode whose allowed_tools
\* list it, after a mode change and after other tools had run
C2_Witness ==
    \E w \in Workers :
        /\ policy = OverlapPolicy
        /\ last_set = "NORMAL"
        /\ workers[w].tool_name = "delete_database"
        /\ workers[w].resp.policy_violation
        /\ workers[w].exc.mode = "NORMAL"
        /\ "delete_database" \in policy.modes["NORMAL"].allowed_tools
        /\ Len(execution_log) = MaxLog

\* C7: a request that the policy check denies is answered without a registry
\* lookup and without a call of any operation, and none of its steps changes
\* the audit log, the service health map or the fleet size.
C7_DeniedLeavesBackend ==
    [][\A w \in Workers :
          /\ workers'[w].exc.type = "PolicyViolationError" =>
                 /\ workers'[w].lookups = 0
                 /\ workers'[w].calls = 0
                 /\ workers'[w].pc = "idle" => workers'[w].resp = Denied(workers'[w].exc)
          /\ (/\ workers'[w] # workers[w]
              /\ workers'[w].endpoint = "execute_tool"
              /\ workers'[w].lookups = 0) =>
                 UNCHANGED backend]_vars

\* a request was denied while the backend had been changed by other requests
C7_Witness ==
    \E w \in Workers :
        /\ workers[w].exc.type = "PolicyViolationError"
        /\ workers[w].resp.policy_violation
        /\ workers[w].tool_name = "scale_fleet"
        /\ fleet_size = 5
        /\ services["web-server"] = "critical"
        /\ Len(execution_log) > 0

\* C9: with set_mode running concurrently, the whole outcome of every
\* validate call (decision, rules consulted, and the mode named in the
\* denial's mode field, reason and message with its rationale) is the outcome
\* that one single mode gives.
C9_SingleModeOutcome ==
    \A w \in Workers :
        workers[w].exc.type = "PolicyViolationError" =>
            \E m \in DOMAIN policy.modes \cup {InitialMode} :
                workers[w].exc = validate(policy, workers[w].tool_name, SameReads(m))

-----------------------------------------------------------------------------
(* Claims about the gateway, checked under SpecGateway *)

\* worker w took a step of a request to the named endpoint
Stepped(w, endpoint) ==
    /\ workers'[w] # workers[w]
    /\ workers'[w].endpoint = endpoint

\* C11: the current mode is "NORMAL" after construction whatever the policy
\* holds; a step changes it only if the step is a set_mode call that returns
\* normally, and then to the mode asked for; the steps of execute_tool
\* (validate, dispatch, each kind of response), of the status queries and of
\* the catalog query leave it as it is; and a set_mode to a configured mode
\* succeeds from whatever mode is current.
C11_ModeChangesOnlyBySetMode ==
    /\ current_mode = "NORMAL"
    /\ [][/\ current_mode' # current_mode =>
                 \E w \in Workers :
                     /\ workers[w].pc = "idle"
                     /\ Stepped(w, "set_mode")
                     /\ workers'[w].exc = NoExc
                     /\ workers'[w].mode = current_mode'
          /\ \A w \in Workers :
                 \/ Stepped(w, "execute_tool")
                 \/ Stepped(w, "root")
                 \/ Stepped(w, "policy_status")
                 \/ Stepped(w, "infrastructure_status")
                 \/ Stepped(w, "tool_catalog")
                 => current_mode' = current_mode
          /\ \A w \in Workers :
                 (/\ workers[w].pc = "idle"
                  /\ Stepped(w, "set_mode")
                  /\ workers'[w].mode \in DOMAIN policy.modes) =>
                     /\ current_mode' = workers'[w].mode
                     /\ workers'[w].exc = NoExc]_vars

\* the mode was raised by set_mode and a tool request, a status query or a
\* catalog query has been answered since
C11_Witness ==
    /\ current_mode = "EMERGENCY"
    /\ workers[Caller].pc = "idle"
    /\ workers[Caller].endpoint = "tool_catalog"
    /\ workers[Caller].resp.http = 200
    /\ Len(execution_log) > 0

------------------------------------------------------------------------\* worker w is inside policy_engine.validate
InValidate(w) ==
    workers[w].pc \in {"validate_global", "validate_mode", "validate_message",
                       "validate_exc_mode", "validate_reason"}

\* C13: validate has no side effect: every step of it, up to and including
\* the one in which it returns True or raises its denial, leaves the current
\* mode, the policy document, the audit log and the backend state (services,
\* fleet size) as they were.
C13_ValidateChangesNothing ==
    [][\A w \in Workers :
          (InValidate(w) /\ workers'[w] # workers[w]) =>
              /\ policy' = policy
              /\ current_mode' = current_mode
              /\ execution_log' = execution_log
              /\ services' = services
              /\ fleet_size' = fleet_size]_vars

\* validate has just returned True in a gateway whose mode, audit log and
\* services differ from those of construction
C13_Witness ==
    /\ workers[Caller].pc = "dispatch"
    /\ workers[Caller].exc = NoExc
    /\ current_mode = "EMERGENCY"
    /\ Len(execution_log) > 0
    /\ services["web-server"] = "critical"

\* worker w runs _execute_tool_function in this step
Dispatches(w) ==
    /\ workers[w].pc = "dispatch"
    /\ workers'[w].pc = "idle"

\* the audit log gains exactly one record, whose action is tool_name
OneRecordAppended(tool_name) ==
    /\ Len(execution_log') = Len(execution_log) + 1
    /\ SubSeq(execution_log', 1, Len(execution_log)) = execution_log
    /\ execution_log'[Len(execution_log')].action = tool_name

\* C14: every execute_tool request that passes the policy check and whose
\* tool is found in the registry appends exactly one audit record whose
\* action is the tool's name, also when the call ends in an execution
\* failure such as arguments the operation cannot accept; and the gateway
\* appends an audit record for such dispatched requests only.
C14_OneAuditRecordPerDispatch ==
    [][/\ \A w \in Workers :
             (Dispatches(w) /\ workers[w].tool_name \in tool_map) =>
                 OneRecordAppended(workers[w].tool_name)
       /\ execution_log' # execution_log =>
             \E w \in Workers : Dispatches(w) /\ workers[w].tool_name \in tool_map]_vars

\* C15: the audit log is append-only: whatever requests are made, in every
\* step its length does not decrease and every record it held stays at its
\* position with its action and details (the log before the step is a prefix
\* of the log after it).
C15_AuditLogAppendOnly ==
    [][/\ Len(execution_log') >= Len(execution_log)
       /\ SubSeq(execution_log', 1, Len(execution_log)) = execution_log]_vars

\* two records of different tools are in the log and the status endpoint
\* has shown them
C15_Witness ==
    /\ Len(execution_log) >= 2
    /\ execution_log[1].action # execution_log[2].action
    /\ workers[Caller].endpoint = "infrastructure_status"
    /\ workers[Caller].resp.recent_actions = execution_log

\* the response is an execution failure: success false, an error text, not
\* flagged as a policy violation
ExecutionFailure(resp) ==
    /\ resp.http = 200
    /\ ~resp.success
    /\ resp.result = NoResult
    /\ Len(resp.error) > 1
    /\ resp.error[1] = "Execution error:"
    /\ ~resp.policy_violation
    /\ resp.blocked_reason = <<>>

\* C16: a request whose tool the policy allows in the current mode but
\* tool_map does not have ends as an execution failure that is not flagged
\* as a policy violation; no tool function is called and no audit record is
\* appended (the backend is left as it was).
C16_UnknownToolFails ==
    [][\A w \in Workers :
          (Dispatches(w) /\ workers[w].tool_name \notin tool_map) =>
              /\ ExecutionFailure(workers'[w].resp)
              /\ workers'[w].calls = 0
              /\ execution_log' = execution_log
              /\ services' = services
              /\ fleet_size' = fleet_size]_vars

\* the unregistered tool was allowed by the policy and looked up
C16_Witness ==
    /\ workers[Caller].tool_name = "unregistered_tool"
    /\ workers[Caller].pc = "idle"
    /\ workers[Caller].exc = NoExc
    /\ workers[Caller].lookups = 1
    /\ ExecutionFailure(workers[Caller].resp)
    /\ Len(execution_log) > 0

\* C17: a dispatched tool called with arguments that do not bind (a required
\* one missing, a keyword it does not have) ends as an execution failure that
\* names the tool and is not flagged as a policy violation, with services
\* and fleet size unchanged; any other fault the tool raises (here: a value
\* of a type its body cannot work with) ends as an execution failure too,
\* and the error carries the message of the fault.
C17_BadArgumentsFail ==
    [][\A w \in Workers :
          (Dispatches(w) /\ workers[w].tool_name \in tool_map) =>
              /\ ~Binds(workers[w].tool_name, workers[w].arguments) =>
                     /\ ExecutionFailure(workers'[w].resp)
                     /\ workers'[w].resp.error =
                            <<"Execution error:", "Invalid arguments for", workers[w].tool_name>>
                            \o binding_type_error(workers[w].tool_name, workers[w].arguments).message
                     /\ services' = services
                     /\ fleet_size' = fleet_size
              /\ (/\ Binds(workers[w].tool_name, workers[w].arguments)
                  /\ UsedParams(workers[w].tool_name) \cap workers[w].arguments.mistyped # {}) =>
                     /\ ExecutionFailure(workers'[w].resp)
                     /\ workers'[w].resp.error =
                            <<"Execution error:", "Invalid arguments for", workers[w].tool_name,
                              "unsupported operand in", workers[w].tool_name>>]_vars

\* restart_service was called without its service_name
C17_Witness ==
    /\ workers[Caller].tool_name = "restart_service"
    /\ workers[Caller].arguments = NoArguments
    /\ workers[Caller].pc = "idle"
    /\ workers[Caller].calls = 1
    /\ ExecutionFailure(workers[Caller].resp)
    /\ services["web-server"] = "critical"

\* the three results of ToolResponse
IsDenied(resp) ==
    /\ resp.http = 200
    /\ ~resp.success
    /\ resp.policy_violation
    /\ resp.error # <<>>
    /\ resp.blocked_reason # <<>>

IsSucceeded(resp) ==
    /\ resp.http = 200
    /\ resp.success
    /\ resp.result # NoResult
    /\ resp.error = <<>>
    /\ ~resp.policy_violation

\* C18: every execute_tool request, in every reachable state and for every
\* policy that loads, ends with exactly one structured result (Denied,
\* Succeeded or Failed); no fault leaves the gateway unhandled.
C18_AlwaysStructuredResult ==
    \A w \in Workers :
        (workers[w].endpoint = "execute_tool" /\ workers[w].pc = "idle") =>
            \/ IsDenied(workers[w].resp)
            \/ IsSucceeded(workers[w].resp)
            \/ ExecutionFailure(workers[w].resp)

\* C19: a single execute_tool request enters validate exactly once, looks
\* its tool up at most once and calls the tool's function at most once:
\* nothing is retried, so no step of a request adds more than one audit
\* record.
C19_NoRetries ==
    [][\A w \in Workers :
          Stepped(w, "execute_tool") =>
              /\ workers'[w].checks = 1
              /\ workers'[w].lookups <= 1
              /\ workers'[w].calls <= 1
              /\ Len(execution_log') <= Len(execution_log) + 1
              /\ ~Dispatches(w) => UNCHANGED backend]_vars

\* a call failed inside the tool's body and was not made again
C19_Witness ==
    /\ workers[Caller].tool_name = "scale_fleet"
    /\ workers[Caller].arguments.mistyped # {}
    /\ workers[Caller].pc = "idle"
    /\ workers[Caller].checks = 1
    /\ workers[Caller].calls = 1
    /\ ExecutionFailure(workers[Caller].resp)
    /\ \E i \in 1..Len(execution_log) : execution_log[i].details.str = Mistyped

\* C21: the policy document is immutable after load: no step of set_mode,
\* validate, execute_tool, a status query or the catalog query, in whatever
\* order they are made, changes always_blocked, the set of modes, or a
\* mode's allowed_tools, blocked_tools or rationale.
C21_PolicyImmutable ==
    [][/\ policy'.global_rules.always_blocked = policy.global_rules.always_blocked
       /\ DOMAIN policy'.modes = DOMAIN policy.modes
       /\ \A m \in DOMAIN policy.modes :
              /\ policy'.modes[m].allowed_tools = policy.modes[m].allowed_tools
              /\ policy'.modes[m].blocked_tools = policy.modes[m].blocked_tools
              /\ policy'.modes[m].rationale = policy.modes[m].rationale]_vars

\* the catalog of a mode that allows a globally blocked tool has been
\* answered after the mode was changed and tools were run
C21_Witness ==
    /\ policy = OverlapPolicy
    /\ current_mode = "EMERGENCY"
    /\ last_set = "EMERGENCY"
    /\ workers[Caller].endpoint = "tool_catalog"
    /\ workers[Caller].pc = "idle"
    /\ "delete_database" \in workers[Caller].resp.allowed_tools
    /\ Len(execution_log) > 0

\* worker w dispatches tool_name in this step with arguments its function
\* takes and can work with
Runs(w, tool_name) ==
    /\ Dispatches(w)
    /\ workers[w].tool_name = tool_name
    /\ Binds(tool_name, workers[w].arguments)
    /\ UsedParams(tool_name) \cap workers[w].arguments.mistyped = {}

\* C24: the fleet size is within 1..100 in every reachable state:
\* scale_fleet(count) with 1 <= count <= 100 sets fleet_size to count and
\* reports success with the old size and new_size = count; a count below 1
\* or above 100 returns an error status and leaves fleet_size as it was; in
\* both cases one audit record of scale_fleet is appended.
C24_FleetSizeInRange ==
    /\ [](fleet_size \in 1..100)
    /\ [][\A w \in Workers :
             Runs(w, "scale_fleet") =>
                 LET count == workers[w].arguments.num
                     result == workers'[w].resp.result
                 IN  /\ OneRecordAppended("scale_fleet")
                     /\ execution_log'[Len(execution_log')].details.num = count
                     /\ IF 1 <= count /\ count <= 100
                        THEN /\ fleet_size' = count
                             /\ result.status = "success"
                             /\ result.old_size = fleet_size
                             /\ result.new_size = count
                        ELSE /\ fleet_size' = fleet_size
                             /\ result.status = "error"]_vars

\* the fleet was scaled to a limit and a count beyond the limits was then
\* turned down
C24_Witness ==
    /\ fleet_size \in {1, 100}
    /\ workers[Caller].tool_name = "scale_fleet"
    /\ workers[Caller].arguments.num \in {0, 101}
    /\ workers[Caller].arguments.mistyped = {}
    /\ workers[Caller].pc = "idle"
    /\ workers[Caller].calls = 1
    /\ workers[Caller].resp.result.status = "error"
    /\ Len(execution_log) >= 2

\* worker w dispatches a tool in this step that turns its input down by
\* returning an error dictionary
RunsIntoDomainError(w) ==
    \/ /\ Runs(w, "restart_service")
       /\ workers[w].arguments.str \notin DOMAIN services
    \/ /\ Runs(w, "get_service_status")
       /\ "service_name" \in workers[w].arguments.keys
       /\ workers[w].arguments.str \notin DOMAIN services
    \/ /\ Runs(w, "scale_fleet")
       /\ workers[w].arguments.num \notin 1..100

\* C25: a dispatched tool that turns its input down with an error returned
\* as a value (restart_service or get_service_status of a service that does
\* not exist, scale_fleet out of range) makes execute_tool answer
\* success=true with that error value as the result, and leaves the service
\* health map as it was; the keys of the map never change; restart_service
\* of an existing service sets that service to healthy and no other.
C25_DomainErrorIsSuccess ==
    [][/\ DOMAIN services' = DOMAIN services
       /\ \A w \in Workers :
             /\ RunsIntoDomainError(w) =>
                    /\ workers'[w].resp.http = 200
                    /\ workers'[w].resp.success
                    /\ workers'[w].resp.result.status = "error"
                    /\ workers'[w].resp.error = <<>>
                    /\ ~workers'[w].resp.policy_violation
                    /\ services' = services
             /\ (/\ Runs(w, "restart_service")
                 /\ workers[w].arguments.str \in DOMAIN services) =>
                    /\ workers'[w].resp.success
                    /\ workers'[w].resp.result.status = "success"
                    /\ services' = [services EXCEPT ![workers[w].arguments.str] = "healthy"]]_vars

\* restart_service of a service that does not exist was answered as a
\* success while web-server stayed critical
C25_Witness ==
    /\ workers[Caller].tool_name = "restart_service"
    /\ workers[Caller].arguments.str = "no-such-service"
    /\ workers[Caller].pc = "idle"
    /\ workers[Caller].calls = 1
    /\ workers[Caller].resp.success
    /\ workers[Caller].resp.result.status = "error"
    /\ services["web-server"] = "critical"

-----
(* Claims about validate with args and context, checked under SpecValidate *)

\* C12: with the mode and the policy as they are, validate(t, args, context)
\* gives one and the same decision (return, or the same exception with the
\* same reason and message) however often it is repeated and whatever args
\* and context are passed: the decision just taken is the one every other
\* args and context give, and two calls in a row for the same tool agree.
C12_RepeatableDecision ==
    /\ [](ret.op = "validate" =>
             \A args \in ArgumentInputs, context \in ContextInputs :
                 validate_call(policy, current_mode, ret.arg, args, context) = ret.raised)
    /\ [][(/\ ret.op = "validate"
            /\ ret'.op = "validate"
            /\ ret'.arg = ret.arg) => ret'.raised = ret.raised]_vars

\* a denial of a call that passed both args and an override in the context
C12_Witness ==
    /\ ret.op = "validate"
    /\ ret.args # NoArguments
    /\ "override" \in ret.context.keys
    /\ ret.raised.type = "PolicyViolationError"
    /\ current_mode = "EMERGENCY"

-----------------------------------------------------------------------------
(* Claims about loading the policy, checked under SpecLoad *)

\* the top-level keys every policy document must have
RequiredKeys == {"modes", "global_rules"}

\* C20: constructing a PolicyEngine fails with an error, and leaves no
\* instance to serve a request, when the policy source is missing, does not
\* parse, or parses to a document that lacks modes or global_rules; so the
\* policy of every instance that exists has both keys.
C20_LoadRejectsBadSource ==
    /\ \A source \in PolicySources :
           (/\ ret.op = "__init__"
            /\ ret.arg = source.name
            /\ \/ ~source.exists
               \/ ~source.parses
               \/ ~(RequiredKeys \subseteq DOMAIN source.document)) =>
               (ret.raised # NoExc /\ ~Constructed)
    /\ Constructed => RequiredKeys \subseteq DOMAIN policy

-----------------------------------------------------------------------------
(* Claims about the gateway under concurrent requests, checked under Spec *)

\* the rules of mode m allow tool t
ApprovedIn(m, t) ==
    /\ m \in DOMAIN policy.modes
    /\ t \notin policy.global_rules.always_blocked
    /\ t \notin policy.modes[m].blocked_tools
    /\ t \in policy.modes[m].allowed_tools

\* C22: under every interleaving of set_mode and execute_tool requests, a
\* request that is about to be dispatched or has been dispatched for tool t
\* was approved by the rules of the mode that was current when its policy
\* check read the mode: t is not globally blocked, not in that mode's
\* blocked_tools and in its allowed_tools. The mode may have changed by the
\* time of the dispatch, but no request is dispatched that no mode approved.
C22_DispatchedWasApproved ==
    /\ [](\A w \in Workers :
             (/\ workers[w].endpoint = "execute_tool"
              /\ workers[w].pc = "dispatch" \/ workers[w].lookups = 1) =>
                 ApprovedIn(workers[w].rd.policy_mode, workers[w].tool_name))
    /\ [][\A w \in Workers :
             /\ (workers[w].pc = "validate_mode" /\ workers'[w].pc = "dispatch") =>
                    /\ workers'[w].rd.policy_mode = current_mode
                    /\ workers'[w].tool_name = workers[w].tool_name
             /\ (workers[w].pc = "dispatch" /\ workers'[w].pc = "idle") =>
                    /\ workers'[w].rd = workers[w].rd
                    /\ workers'[w].tool_name = workers[w].tool_name
                    /\ workers'[w].lookups = 1]_vars

\* restart_service was approved under EMERGENCY and is about to be
\* dispatched although the mode has gone back to NORMAL, which blocks it
C22_Witness ==
    \E w \in Workers :
        /\ workers[w].pc = "dispatch"
        /\ workers[w].tool_name = "restart_service"
        /\ workers[w].rd.policy_mode = "EMERGENCY"
        /\ current_mode = "NORMAL"
        /\ ~ApprovedIn(current_mode, workers[w].tool_name)
        /\ Len(execution_log) < MaxLog

-----------------------------------------------------------------------------
(* Claims about status reports under concurrent requests, checked under
   SpecStatus *)

====
